---- MODULE Spec2Model ----
(***************************************************************************)
(* A model of deb-audit (src/deb-audit.py): the Issue predicates, the      *)
(* on-disk cache (Cache), the summary of a package's issues (Summary) and  *)
(* the command-line run (Checker.run).                                     *)
(*                                                                         *)
(* Python values that may be None are tagged records: PyNone, PyStr(s),    *)
(* PyInt(n).  JSON values are tagged records of their own (JNull, JStr,    *)
(* JNum, JArr, JObj), so that writing and reading a cache file is a pair   *)
(* of conversions and not the identity.  Dictionary keys that are always   *)
(* strings (architectures, binary package names) are plain strings.        *)
(***************************************************************************)
EXTENDS Integers, Sequences, FiniteSets, TLC

VARIABLES
    \* ---- the machine the program runs on
    dirExists,      \* the cache directory ~/.cache/deb-audit exists
    disk,           \* cache file path -> NoFile or a file (content, mtime)
    tmp,            \* the temporary file of the atomic_write in progress
    clock,          \* the time; a file renamed into place gets it as mtime
    udd,            \* the rows the UDD mirror answers the two queries with
    \* ---- one invocation of the program (Checker.run)
    pc,             \* where the run is
    args,           \* the command line: release, files, show_all
    packages,       \* scan_packages' result
    archs,          \* the architectures of the scanned packages
    source_maps,    \* Cache._source_maps
    issue_map,      \* Cache._issue_map
    todo,           \* the architectures a loop over self._archs has left
    lines,          \* the issue records dump has still to write
    idx,            \* the audit loop's position in packages
    summary,        \* the Summary made last
    audited,        \* the position in packages of the package it was made for
    total_present,
    total_unknown,
    stdout,         \* the lines printed on standard output
    exit_code,      \* sys.exit's argument, None while the process runs
    raised,         \* the exception that ended the run, None if there is none
    \* ---- history of the run, read by the properties only
    calls,          \* the cache and UDD operations the run has made, in order
    disk0,          \* the cache files as they were when the run started
    prev,           \* what the invocation before this one did to the cache
    \* ---- a test harness for the two Issue predicates
    subject,        \* the Issue under test
    observed        \* the calls made on it, with their results

machineVars == <<dirExists, disk, tmp, clock, udd>>
runVars == <<pc, args, packages, archs, source_maps, issue_map, todo, lines, idx,
             summary, audited, total_present, total_unknown, stdout, exit_code, raised>>
histVars == <<calls, disk0, prev>>
issueVars == <<subject, observed>>
vars == <<machineVars, runVars, histVars, issueVars>>

-----------------------------------------------------------------------------
(* Bounds of the model *)

\* invocations of the program in one behaviour (the clock stops there)
MaxRuns == 2
\* package files on one command line
MaxFiles == 2
\* issue records in the cache file found at the start
MaxIssues == 3
\* calls made on one Issue by the harness
MaxCalls == 3

-----------------------------------------------------------------------------
(* Python and JSON values *)

PyNone == [t |-> "None"]
PyStr(s) == [t |-> "str", s |-> s]
PyInt(n) == [t |-> "int", n |-> n]

\* Python's truth value of an Optional[str] / Optional[int]
Truthy(x) == x # PyNone /\ x # PyStr("") /\ x # PyInt(0)

JNull == [j |-> "null"]
JStr(s) == [j |-> "string", s |-> s]
JNum(n) == [j |-> "number", n |-> n]
JArr(items) == [j |-> "array", items |-> items]
JObj(members) == [j |-> "object", members |-> members]

\* json.dump of a None, a str or an int
PyToJson(x) ==
    IF x = PyNone THEN JNull
    ELSE IF x.t = "str" THEN JStr(x.s)
    ELSE JNum(x.n)

\* json.load of a null, a string or a number
JsonToPy(v) ==
    IF v = JNull THEN PyNone
    ELSE IF v.j = "string" THEN PyStr(v.s)
    ELSE PyInt(v.n)

-----------------------------------------------------------------------------
(* Debian version comparison: apt_pkg.version_compare *)

\* The version strings of the model and their characters.
VersionChars ==
    ("" :> <<>>) @@
    ("1.0-1" :> <<"1", ".", "0", "-", "1">>) @@
    ("1.0-2" :> <<"1", ".", "0", "-", "2">>) @@
    ("1.0-10" :> <<"1", ".", "0", "-", "1", "0">>) @@
    ("1.0" :> <<"1", ".", "0">>) @@
    ("1.0~rc1-1" :> <<"1", ".", "0", "~", "r", "c", "1", "-", "1">>) @@
    ("1.0a-1" :> <<"1", ".", "0", "a", "-", "1">>) @@
    ("1.0+b1-1" :> <<"1", ".", "0", "+", "b", "1", "-", "1">>) @@
    ("1:0.9-1" :> <<"1", ":", "0", ".", "9", "-", "1">>) @@
    ("01.0-1" :> <<"0", "1", ".", "0", "-", "1">>)

Versions == DOMAIN VersionChars \ {""}

DigitVal ==
    ("0" :> 0) @@ ("1" :> 1) @@ ("2" :> 2) @@ ("3" :> 3) @@ ("4" :> 4) @@
    ("5" :> 5) @@ ("6" :> 6) @@ ("7" :> 7) @@ ("8" :> 8) @@ ("9" :> 9)

Digits == DOMAIN DigitVal

Ascii ==
    ("a" :> 97) @@ ("b" :> 98) @@ ("c" :> 99) @@ ("r" :> 114) @@
    ("+" :> 43) @@ ("." :> 46) @@ ("-" :> 45) @@ (":" :> 58) @@ ("~" :> 126)

Letters == {"a", "b", "c", "r"}

\* the weight of the character at the head of s; the end of the string and a
\* digit weigh 0, a tilde sorts before the end, a letter before any other sign
Order(s) ==
    IF s = <<>> THEN 0
    ELSE IF Head(s) \in Digits THEN 0
    ELSE IF Head(s) = "~" THEN -1
    ELSE IF Head(s) \in Letters THEN Ascii[Head(s)]
    ELSE Ascii[Head(s)] + 256

IsDigitAt(s) == s # <<>> /\ Head(s) \in Digits

RECURSIVE StripZeros(_)
StripZeros(s) == IF s # <<>> /\ Head(s) = "0" THEN StripZeros(Tail(s)) ELSE s

RECURSIVE DigitRun(_)
DigitRun(s) == IF IsDigitAt(s) THEN <<Head(s)>> \o DigitRun(Tail(s)) ELSE <<>>

RECURSIVE FirstDiff(_, _)
FirstDiff(a, b) ==
    IF a = <<>> THEN 0
    ELSE IF Head(a) # Head(b) THEN DigitVal[Head(a)] - DigitVal[Head(b)]
    ELSE FirstDiff(Tail(a), Tail(b))

\* one fragment (epoch, upstream version or revision) against another
RECURSIVE CmpFragment(_, _)
CmpFragment(a, b) ==
    IF a = <<>> /\ b = <<>> THEN 0
    ELSE IF (a # <<>> /\ ~IsDigitAt(a)) \/ (b # <<>> /\ ~IsDigitAt(b))
    THEN IF Order(a) # Order(b) THEN Order(a) - Order(b)
         ELSE CmpFragment(Tail(a), Tail(b))
    ELSE LET da == DigitRun(StripZeros(a))
             db == DigitRun(StripZeros(b))
             ra == SubSeq(StripZeros(a), Len(da) + 1, Len(StripZeros(a)))
             rb == SubSeq(StripZeros(b), Len(db) + 1, Len(StripZeros(b)))
         IN  IF Len(da) > Len(db) THEN 1
             ELSE IF Len(da) < Len(db) THEN -1
             ELSE IF FirstDiff(da, db) # 0 THEN FirstDiff(da, db)
             ELSE CmpFragment(ra, rb)

Positions(s, c) == {i \in 1..Len(s) : s[i] = c}
Min(S) == CHOOSE x \in S : \A y \in S : x <= y
Max(S) == CHOOSE x \in S : \A y \in S : x >= y

\* the part before the first colon, "0" when there is none
EpochOf(s) ==
    IF Positions(s, ":") = {} THEN <<"0">>
    ELSE SubSeq(s, 1, Min(Positions(s, ":")) - 1)

AfterEpoch(s) ==
    IF Positions(s, ":") = {} THEN s
    ELSE SubSeq(s, Min(Positions(s, ":")) + 1, Len(s))

\* the part before the last hyphen
UpstreamOf(s) ==
    LET r == AfterEpoch(s)
    IN  IF Positions(r, "-") = {} THEN r
        ELSE SubSeq(r, 1, Max(Positions(r, "-")) - 1)

\* the part after the last hyphen, "0" when there is none
RevisionOf(s) ==
    LET r == AfterEpoch(s)
    IN  IF Positions(r, "-") = {} THEN <<"0">>
        ELSE SubSeq(r, Max(Positions(r, "-")) + 1, Len(r))

\* apt_pkg.version_compare(a, b): negative, zero or positive
version_compare(a, b) ==
    LET ca == VersionChars[a]
        cb == VersionChars[b]
        e == CmpFragment(EpochOf(ca), EpochOf(cb))
        u == CmpFragment(UpstreamOf(ca), UpstreamOf(cb))
    IN  IF e # 0 THEN e
        ELSE IF u # 0 THEN u
        ELSE CmpFragment(RevisionOf(ca), RevisionOf(cb))

-----------------------------------------------------------------------------
(* class Issue *)

IssueFields ==
    {"source", "issue", "description", "scope", "bug", "fixed_version", "status", "nodsa"}

\* Issue(source=..., ...): the dataclass' constructor
Issue(source, issue, description, scope, bug, fixed_version, status, nodsa) ==
    [source |-> source, issue |-> issue, description |-> description, scope |-> scope,
     bug |-> bug, fixed_version |-> fixed_version, status |-> status, nodsa |-> nodsa]

\* is_present_in with <= in place of <: a version equal to the fixed one counts
\* as affected
is_present_in_le(self, version) ==
    ~Truthy(self.fixed_version) \/ version_compare(version, self.fixed_version.s) <= 0

\* Issue.is_present_in
is_present_in(self, version) ==
    ~Truthy(self.fixed_version) \/ version_compare(version, self.fixed_version.s) < 0

\* is_ignored testing nodsa's truth value in place of `is not None`
is_ignored_truthy(self) ==
    Truthy(self.nodsa)

is_ignored(self) ==
    self.nodsa # PyNone

-----------------------------------------------------------------------------
(* Python dictionaries that are iterated: insertion-ordered lists of items *)

Dict(items) == [t |-> "dict", items |-> items]
EmptyDict == Dict(<<>>)

Keys(d) == {d.items[i][1] : i \in 1..Len(d.items)}

\* d.get(k, [])
Get(d, k) ==
    IF k \in Keys(d)
    THEN LET i == CHOOSE i \in 1..Len(d.items) : d.items[i][1] = k IN d.items[i][2]
    ELSE <<>>

\* d.setdefault(k, []).append(x)
SetDefaultAppend(d, k, x) ==
    IF k \in Keys(d)
    THEN LET i == CHOOSE i \in 1..Len(d.items) : d.items[i][1] = k
         IN  Dict([d.items EXCEPT ![i] = <<k, Append(@[2], x)>>])
    ELSE Dict(Append(d.items, <<k, <<x>> >>))

\* the items of d.values(), one list after the other
RECURSIVE Concat(_)
Concat(ss) == IF ss = <<>> THEN <<>> ELSE Head(ss)[2] \o Concat(Tail(ss))

\* for issue in issues: issue_map.setdefault(issue.source, []).append(issue)
RECURSIVE GroupIssues(_, _)
GroupIssues(issues, d) ==
    IF issues = <<>> THEN d
    ELSE GroupIssues(Tail(issues), SetDefaultAppend(d, Head(issues).source, Head(issues)))

\* a source map is a function: binary package -> list of (version, source)
EmptyMap == [p \in {} |-> <<>>]

\* for each row: source_map.setdefault(package, []).append((version, source))
RECURSIVE GroupRows(_, _)
GroupRows(rows, m) ==
    IF rows = <<>> THEN m
    ELSE LET package == Head(rows)[1]
             pair == <<Head(rows)[2], Head(rows)[3]>>
         IN  GroupRows(Tail(rows),
                       IF package \in DOMAIN m
                       THEN [m EXCEPT ![package] = Append(@, pair)]
                       ELSE m @@ (package :> <<pair>>))

-----------------------------------------------------------------------------
(* The Ultimate Debian Database, as the two queries see it *)

\* fetch_source_map: the rows of one architecture, grouped by binary package
fetch_source_map(db, architecture) == GroupRows(db.packages[architecture], EmptyMap)

\* fetch_issues: one Issue per row of the join
fetch_issues(db) ==
    [i \in 1..Len(db.issues) |->
        LET row == db.issues[i]
        IN  Issue(row[1], row[2], row[3], row[4], row[5], row[6], row[7], row[8])]

-----------------------------------------------------------------------------
(* The cache files *)

NoFile == [kind |-> "absent"]
File(content, mtime) == [kind |-> "file", content |-> content, mtime |-> mtime]

\* path.join(directory, f'{release}-issues.json')
issue_cache(release) == <<release, "issues.json">>

\* path.join(directory, f'{release}-{arch}.source-map.json')
source_map_cache(release, arch) == <<release, arch, "source-map.json">>

\* Cache._cache_files, as a set: every use of it is order-free
cache_files(release, architectures) ==
    {source_map_cache(release, arch) : arch \in architectures} \cup {issue_cache(release)}

\* path.exists
Exists(d, filename) == d[filename] # NoFile

\* Cache.is_complete
is_complete(d, release, architectures) ==
    \A filename \in cache_files(release, architectures) : Exists(d, filename)

\* last_updated taking the newest of the files
last_updated_newest(d, release, architectures) ==
    IF ~is_complete(d, release, architectures) THEN PyNone
    ELSE PyInt(Max({d[filename].mtime : filename \in cache_files(release, architectures)}))

\* Cache.last_updated
last_updated(d, release, architectures) ==
    IF ~is_complete(d, release, architectures) THEN PyNone
    ELSE PyInt(Min({d[filename].mtime : filename \in cache_files(release, architectures)}))

\* json.dump(dataclasses.asdict(issue), output): one line of the issues file
IssueToJson(issue) == JObj([f \in IssueFields |-> PyToJson(issue[f])])

\* Issue(**json.loads(line))
IssueFromJson(line) == [f \in DOMAIN line.members |-> JsonToPy(line.members[f])]

\* json.dump(source_map, output): tuples are written as arrays
SourceMapToJson(source_map) ==
    JObj([package \in DOMAIN source_map |->
            JArr([i \in 1..Len(source_map[package]) |->
                    JArr(<<PyToJson(source_map[package][i][1]),
                           PyToJson(source_map[package][i][2])>>)])])

\* the reading of a source map with the two members of each pair exchanged
SourceMapFromJson_swapped(doc) ==
    [package \in DOMAIN doc.members |->
        [i \in 1..Len(doc.members[package].items) |->
            <<JsonToPy(doc.members[package].items[i].items[2]),
              JsonToPy(doc.members[package].items[i].items[1])>>]]

\* json.load and the loop that makes tuples of the inner arrays
SourceMapFromJson(doc) ==
    [package \in DOMAIN doc.members |->
        [i \in 1..Len(doc.members[package].items) |->
            <<JsonToPy(doc.members[package].items[i].items[1]),
              JsonToPy(doc.members[package].items[i].items[2])>>]]

\* text that json.loads / json.load cannot parse
Malformed == [j |-> "invalid"]

\* Issue(**json.loads(line)) returns: the line is JSON, an object, and its keys
\* are the fields of Issue
IssueLineLoads(line) ==
    /\ line # Malformed
    /\ line.j = "object"
    /\ DOMAIN line.members = IssueFields

\* json.load(cache_file) and json_map.items() return: the file is JSON and an
\* object
SourceMapLoads(doc) ==
    /\ doc # Malformed
    /\ doc.j = "object"

\* the exception Cache._load ends with, None if it returns: the issues file
\* is read first, then the source map of each architecture; only
\* FileNotFoundError is caught
load_error(d, release, architectures) ==
    LET issues == d[issue_cache(release)]
        bad == {a \in architectures :
                   /\ Exists(d, source_map_cache(release, a))
                   /\ ~SourceMapLoads(d[source_map_cache(release, a)].content)}
    IN  IF Exists(d, issue_cache(release))
           /\ \E i \in 1..Len(issues.content) : issues.content[i] = Malformed
        THEN PyStr("JSONDecodeError")
        ELSE IF Exists(d, issue_cache(release))
                /\ \E i \in 1..Len(issues.content) : ~IssueLineLoads(issues.content[i])
        THEN PyStr("TypeError")
        ELSE IF \E a \in bad : d[source_map_cache(release, a)].content = Malformed
        THEN PyStr("JSONDecodeError")
        ELSE IF bad # {} THEN PyStr("AttributeError")
        ELSE PyNone

\* Cache._load, first half: the issues file, if there is one
load_issue_map(d, release) ==
    IF ~Exists(d, issue_cache(release)) THEN EmptyDict
    ELSE LET content == d[issue_cache(release)].content
         IN  GroupIssues([i \in 1..Len(content) |-> IssueFromJson(content[i])], EmptyDict)

\* Cache._load, second half: the source map of each architecture that has a file
load_source_maps(d, release, architectures) ==
    [arch \in {a \in architectures : Exists(d, source_map_cache(release, a))} |->
        SourceMapFromJson(d[source_map_cache(release, arch)].content)]

\* Cache.is_known
is_known(maps, package, architecture) == package \in DOMAIN maps[architecture]

\* Cache.issues: the set of the package's sources
SourcesOf(maps, package, architecture) ==
    {maps[architecture][package][i][2] : i \in 1..Len(maps[architecture][package])}

\* Cache.issues, given the order in which the set of sources is iterated
RECURSIVE issues_in_order(_, _)
issues_in_order(imap, order) ==
    IF order = <<>> THEN <<>>
    ELSE Get(imap, Head(order)) \o issues_in_order(imap, Tail(order))

\* the orders a set may be iterated in
Orderings(S) ==
    {o \in [1..Cardinality(S) -> S] : \A i, j \in 1..Cardinality(S) : o[i] = o[j] => i = j}

-----------------------------------------------------------------------------
(* class Summary *)

Summary(fixed, present, ignored) ==
    [issues_fixed |-> fixed, issues_present |-> present, issues_ignored |-> ignored]

\* from_issues' loop with the fixed branch counting every issue that is not
\* present
RECURSIVE classify_no_else(_, _, _)
classify_no_else(issues, version, acc) ==
    IF issues = <<>> THEN acc
    ELSE LET issue == Head(issues)
             ign == IF is_ignored(issue)
                    THEN [acc EXCEPT !.issues_ignored = Append(@, issue)]
                    ELSE acc
             next ==
                IF version # "" /\ ~is_present_in(issue, version)
                THEN [acc EXCEPT !.issues_fixed = Append(@, issue)]
                ELSE [ign EXCEPT !.issues_present = Append(@, issue)]
         IN  classify_no_else(Tail(issues), version, next)

\* from_issues' loop asking is_ignored before is_present_in
RECURSIVE classify_ignored_first(_, _, _)
classify_ignored_first(issues, version, acc) ==
    IF issues = <<>> THEN acc
    ELSE LET issue == Head(issues)
             next ==
                IF is_ignored(issue)
                THEN [acc EXCEPT !.issues_ignored = Append(@, issue)]
                ELSE IF version # "" /\ ~is_present_in(issue, version)
                THEN [acc EXCEPT !.issues_fixed = Append(@, issue)]
                ELSE [acc EXCEPT !.issues_present = Append(@, issue)]
         IN  classify_ignored_first(Tail(issues), version, next)

\* Summary.from_issues' loop; `version` is a str (the package's Version field)
RECURSIVE classify(_, _, _)
classify(issues, version, acc) ==
    IF issues = <<>> THEN acc
    ELSE LET issue == Head(issues)
             next ==
                IF version # ""
                THEN IF is_present_in(issue, version)
                     THEN IF is_ignored(issue)
                          THEN [acc EXCEPT !.issues_ignored = Append(@, issue)]
                          ELSE [acc EXCEPT !.issues_present = Append(@, issue)]
                     ELSE [acc EXCEPT !.issues_fixed = Append(@, issue)]
                ELSE IF is_ignored(issue)
                     THEN [acc EXCEPT !.issues_ignored = Append(@, issue)]
                     ELSE [acc EXCEPT !.issues_present = Append(@, issue)]
         IN  classify(Tail(issues), version, next)

from_issues(issues, version) == classify(issues, version, Summary(<<>>, <<>>, <<>>))

-----------------------------------------------------------------------------
(* The world of the model: releases, architectures, package files, database *)

\* --release; the default is the only release of the model
Releases == {"buster"}
Archs == {"amd64", "i386"}
Paths == UNION {cache_files(release, Archs) : release \in Releases}

\* What DebFile(filename).debcontrol() gives for the files of the model
NotADeb == [valid |-> FALSE]
Control(package, version, architecture) ==
    [valid |-> TRUE, Package |-> package, Version |-> version, Architecture |-> architecture]
Debs ==
    ("foo_1.0-1_amd64.deb" :> Control("foo", "1.0-1", "amd64")) @@
    ("foo_1.0-2_i386.deb" :> Control("foo", "1.0-2", "i386")) @@
    ("bar_1.0-1_i386.deb" :> Control("bar", "1.0-1", "i386")) @@
    ("junk.deb" :> NotADeb)

\* the command lines: one to MaxFiles files, no file twice
RECURSIVE SeqsUpTo(_, _)
SeqsUpTo(S, n) ==
    IF n = 0 THEN {<<>>}
    ELSE SeqsUpTo(S, n - 1) \cup
         {Append(q, x) : q \in {q \in SeqsUpTo(S, n - 1) : Len(q) = n - 1}, x \in S}
NoRepeat(q) == \A i, j \in 1..Len(q) : q[i] = q[j] => i = j
FileLists == {q \in SeqsUpTo(DOMAIN Debs, MaxFiles) : q # <<>> /\ NoRepeat(q)}

\* all_packages, per architecture, as the mirror has it now
UddPackages ==
    ("amd64" :> << <<"foo", PyStr("1.0-1"), PyStr("srcA")>>,
                   <<"foo", PyStr("1.0-2"), PyStr("srcA")>>,
                   <<"bar", PyStr("1.0-1"), PyStr("srcB")>> >>) @@
    ("i386" :> << <<"foo", PyStr("1.0-1"), PyStr("srcA")>>,
                  <<"foo", PyStr("1.0-2"), PyStr("srcB")>> >>)

\* all_packages as it was when the cache files found at the start were written
PriorPackages ==
    ("amd64" :> << <<"foo", PyStr("1.0-1"), PyStr("srcA")>> >>) @@
    ("i386" :> << <<"foo", PyStr("1.0-1"), PyStr("srcA")>>,
                  <<"bar", PyStr("1.0-1"), PyStr("srcB")>> >>)

\* rows of security_issues joined with security_issues_releases
IssueRows ==
    << <<PyStr("srcA"), PyStr("CVE-1"), PyStr("overflow"), PyStr("remote"), PyInt(1),
         PyStr("1.0-2"), PyStr("resolved"), PyNone>>,
       <<PyStr("srcA"), PyStr("CVE-2"), PyNone, PyStr("local"), PyNone,
         PyNone, PyStr("open"), PyStr("ignored")>>,
       <<PyStr("srcB"), PyStr("CVE-3"), PyStr(""), PyNone, PyInt(0),
         PyStr(""), PyStr("undetermined"), PyStr("")>>,
       <<PyStr("srcA"), PyStr("CVE-4"), PyStr("leak"), PyStr("local"), PyInt(4),
         PyStr("1.0-1"), PyStr("resolved"), PyStr("postponed")>> >>

\* the selections of at most MaxIssues of the rows, in the table's order
RowSelections ==
    {sel \in SUBSET (1..Len(IssueRows)) : Cardinality(sel) <= MaxIssues}
RECURSIVE SelectRows(_, _)
SelectRows(sel, i) ==
    IF i > Len(IssueRows) THEN <<>>
    ELSE (IF i \in sel THEN <<IssueRows[i]>> ELSE <<>>) \o SelectRows(sel, i + 1)

\* the answers of the mirror: the packages and the issues of the release
Udds == {[packages |-> UddPackages, issues |-> SelectRows({1, 2}, 1)]}

\* a cache file that something other than dump has damaged: an issues file
\* with a line that is no JSON, a source map that is no JSON or is a JSON array
Damaged(f) ==
    IF Len(f) = 2 THEN File(<<Malformed>>, 0)
    ELSE IF f[2] = "amd64" THEN File(Malformed, 0)
    ELSE File(JArr(<<>>), 0)

\* a cache directory as an earlier invocation may have left it: any of the
\* files, written at time 0 from the database of then, and at most one of
\* them damaged since
InitialDisks ==
    {[f \in Paths |->
        IF f \notin present THEN NoFile
        ELSE IF f \in damaged THEN Damaged(f)
        ELSE IF Len(f) = 2
             THEN File([i \in 1..Len(SelectRows(sel, 1)) |->
                          IssueToJson(fetch_issues([issues |-> SelectRows(sel, 1)])[i])], 0)
             ELSE File(SourceMapToJson(fetch_source_map([packages |-> PriorPackages], f[2])), 0)]
     : present \in SUBSET Paths, sel \in RowSelections,
       damaged \in {{}} \cup {{f} : f \in Paths}}

-----------------------------------------------------------------------------
(* The state before the first invocation *)

NoSummary == Summary(<<>>, <<>>, <<>>)
NoArgs == [release |-> "", files |-> <<>>, show_all |-> FALSE]
NoMaps == [a \in {} |-> EmptyMap]
NoSubject == [t |-> "no subject"]
NoPrev == [filled |-> FALSE, release |-> "", archs |-> {}]

RunIdle ==
    /\ pc = "idle"
    /\ args = NoArgs
    /\ packages = <<>>
    /\ archs = {}
    /\ source_maps = NoMaps
    /\ issue_map = EmptyDict
    /\ todo = {}
    /\ lines = <<>>
    /\ idx = 1
    /\ summary = NoSummary
    /\ audited = 0
    /\ total_present = 0
    /\ total_unknown = 0
    /\ stdout = <<>>
    /\ exit_code = PyNone
    /\ raised = PyNone
    /\ calls = <<>>

Init ==
    /\ disk \in InitialDisks
    /\ dirExists \in {TRUE} \cup {b \in {FALSE} : \A f \in Paths : disk[f] = NoFile}
    /\ tmp = NoFile
    /\ clock = 0
    /\ udd \in Udds
    /\ RunIdle
    /\ disk0 = disk
    /\ prev = NoPrev
    /\ subject = NoSubject
    /\ observed = <<>>

-----------------------------------------------------------------------------
(* main and Checker.run, up to the cache being resolved *)

\* an exception nobody catches: the interpreter prints it and exits with 1
Abort(exception) ==
    /\ pc' = "aborted"
    /\ exit_code' = PyInt(1)
    /\ raised' = PyStr(exception)

\* main: parse the command line and construct the Checker
StartRun(release, files, show_all) ==
    /\ pc = "idle"
    /\ clock < MaxRuns
    /\ clock' = clock + 1
    /\ pc' = "scan"
    /\ args' = [release |-> release, files |-> files, show_all |-> show_all]
    /\ packages' = <<>>
    /\ archs' = {}
    /\ source_maps' = NoMaps
    /\ issue_map' = EmptyDict
    /\ todo' = {}
    /\ lines' = <<>>
    /\ idx' = 1
    /\ summary' = NoSummary
    /\ audited' = 0
    /\ total_present' = 0
    /\ total_unknown' = 0
    /\ stdout' = <<>>
    /\ exit_code' = PyNone
    /\ raised' = PyNone
    /\ calls' = <<>>
    /\ disk0' = disk
    /\ UNCHANGED <<dirExists, disk, tmp, udd, prev, issueVars>>

\* Package.from_control
from_control(control) ==
    [name |-> control.Package, version |-> control.Version,
     architecture |-> control.Architecture]

\* scan_packages, every file being a package
Scan ==
    /\ pc = "scan"
    /\ \A i \in 1..Len(args.files) : Debs[args.files[i]].valid
    /\ packages' = [i \in 1..Len(args.files) |-> from_control(Debs[args.files[i]])]
    /\ archs' = {packages'[i].architecture : i \in 1..Len(args.files)}
    /\ pc' = "load"
    /\ UNCHANGED <<machineVars, args, source_maps, issue_map, todo, lines, idx, summary, audited,
                   total_present, total_unknown, stdout, exit_code, raised, histVars, issueVars>>

\* scan_packages raising only once the Cache has been constructed
ScanFail_after_load ==
    /\ pc = "scan"
    /\ \E i \in 1..Len(args.files) : ~Debs[args.files[i]].valid
    /\ calls' = Append(calls, <<"_load">>)
    /\ Abort("ArError")
    /\ UNCHANGED <<machineVars, args, packages, archs, source_maps, issue_map, todo, lines,
                   idx, summary, audited, total_present, total_unknown, stdout, disk0, prev,
                   issueVars>>

\* scan_packages, DebFile raising on a file that is no package
ScanFail ==
    /\ pc = "scan"
    /\ \E i \in 1..Len(args.files) : ~Debs[args.files[i]].valid
    /\ Abort("ArError")
    /\ UNCHANGED <<machineVars, args, packages, archs, source_maps, issue_map, todo, lines,
                   idx, summary, audited, total_present, total_unknown, stdout, histVars, issueVars>>

\* Cache.__init__, which ends with self._load()
Load ==
    /\ pc = "load"
    /\ load_error(disk, args.release, archs) = PyNone
    /\ issue_map' = load_issue_map(disk, args.release)
    /\ source_maps' = load_source_maps(disk, args.release, archs)
    /\ calls' = Append(calls, <<"_load">>)
    /\ pc' = "resolve"
    /\ UNCHANGED <<machineVars, args, packages, archs, todo, lines, idx, summary, audited,
                   total_present, total_unknown, stdout, exit_code, raised, disk0, prev, issueVars>>

\* _load catching every exception and leaving the cache empty in memory
LoadFail_as_uncached ==
    /\ pc = "load"
    /\ load_error(disk, args.release, archs) # PyNone
    /\ calls' = Append(calls, <<"_load">>)
    /\ pc' = "connect"
    /\ UNCHANGED <<machineVars, args, packages, archs, source_maps, issue_map, todo, lines,
                   idx, summary, audited, total_present, total_unknown, stdout, exit_code,
                   raised, disk0, prev, issueVars>>

\* Cache.__init__, self._load() raising on a file it cannot read
LoadFail ==
    /\ pc = "load"
    /\ load_error(disk, args.release, archs) # PyNone
    /\ calls' = Append(calls, <<"_load">>)
    /\ Abort(load_error(disk, args.release, archs).s)
    /\ UNCHANGED <<machineVars, args, packages, archs, source_maps, issue_map, todo, lines,
                   idx, summary, audited, total_present, total_unknown, stdout, disk0, prev,
                   issueVars>>

\* run: cache.is_complete() is true; last_updated() only feeds a message
ResolveComplete ==
    /\ pc = "resolve"
    /\ is_complete(disk, args.release, archs)
    /\ last_updated(disk, args.release, archs) # PyNone
    /\ calls' = Append(calls, <<"last_updated">>)
    /\ pc' = "audit"
    /\ UNCHANGED <<machineVars, args, packages, archs, source_maps, issue_map, todo, lines,
                   idx, summary, audited, total_present, total_unknown, stdout, exit_code, raised, disk0,
                   prev, issueVars>>

\* the else branch of run taken whether or not the cache is complete
ResolveAlways ==
    /\ pc = "resolve"
    /\ pc' = "connect"
    /\ UNCHANGED <<machineVars, args, packages, archs, source_maps, issue_map, todo, lines,
                   idx, summary, audited, total_present, total_unknown, stdout, exit_code, raised,
                   histVars, issueVars>>

\* run: cache.is_complete() is false
ResolveIncomplete ==
    /\ pc = "resolve"
    /\ ~is_complete(disk, args.release, archs)
    /\ pc' = "connect"
    /\ UNCHANGED <<machineVars, args, packages, archs, source_maps, issue_map, todo, lines,
                   idx, summary, audited, total_present, total_unknown, stdout, exit_code, raised, histVars,
                   issueVars>>

\* udd_connect() succeeds; load_missing opens a cursor
Connect ==
    /\ pc = "connect"
    /\ calls' = calls \o << <<"udd_connect">>, <<"load_missing">> >>
    /\ todo' = archs
    /\ pc' = "load_missing"
    /\ UNCHANGED <<machineVars, args, packages, archs, source_maps, issue_map, lines, idx,
                   summary, audited, total_present, total_unknown, stdout, exit_code, raised, disk0, prev,
                   issueVars>>

\* udd_connect() raises
ConnectFail ==
    /\ pc = "connect"
    /\ calls' = Append(calls, <<"udd_connect">>)
    /\ Abort("OperationalError")
    /\ UNCHANGED <<machineVars, args, packages, archs, source_maps, issue_map, todo, lines,
                   idx, summary, audited, total_present, total_unknown, stdout, disk0, prev, issueVars>>

\* a turn of the loop that fetches nothing
FetchSourceMap_skipped(arch) ==
    /\ pc = "load_missing"
    /\ arch \in todo
    /\ todo' = todo \ {arch}
    /\ UNCHANGED <<machineVars, pc, args, packages, archs, source_maps, issue_map, lines, idx,
                   summary, audited, total_present, total_unknown, stdout, exit_code, raised,
                   histVars, issueVars>>

\* load_missing, one turn of the loop over self._archs
FetchSourceMap(arch) ==
    /\ pc = "load_missing"
    /\ arch \in todo
    /\ IF arch \notin DOMAIN source_maps
       THEN /\ source_maps' = source_maps @@ (arch :> fetch_source_map(udd, arch))
            /\ calls' = Append(calls, <<"fetch_source_map", arch>>)
       ELSE UNCHANGED <<source_maps, calls>>
    /\ todo' = todo \ {arch}
    /\ UNCHANGED <<machineVars, pc, args, packages, archs, issue_map, lines, idx, summary, audited,
                   total_present, total_unknown, stdout, exit_code, raised, disk0, prev,
                   issueVars>>

\* run catching the exception of the query and going on to dump
FetchFail_caught(arch) ==
    /\ pc = "load_missing"
    /\ arch \in todo
    /\ arch \notin DOMAIN source_maps
    /\ calls' = Append(calls, <<"fetch_source_map", arch>>)
    /\ raised' = PyStr("DatabaseError")
    /\ pc' = "dump"
    /\ UNCHANGED <<machineVars, args, packages, archs, source_maps, issue_map, todo, lines,
                   idx, summary, audited, total_present, total_unknown, stdout, exit_code,
                   disk0, prev, issueVars>>

\* load_missing, the query of fetch_source_map raising
FetchFail(arch) ==
    /\ pc = "load_missing"
    /\ arch \in todo
    /\ arch \notin DOMAIN source_maps
    /\ calls' = Append(calls, <<"fetch_source_map", arch>>)
    /\ Abort("DatabaseError")
    /\ UNCHANGED <<machineVars, args, packages, archs, source_maps, issue_map, todo, lines,
                   idx, summary, audited, total_present, total_unknown, stdout, disk0, prev, issueVars>>

\* the test load_missing makes before it fetches the issues
issues_missing(imap) == imap = PyNone

\* load_missing after the loop: the issues, then run goes on to dump
FetchIssues ==
    /\ pc = "load_missing"
    /\ todo = {}
    /\ IF issues_missing(issue_map)
       THEN /\ issue_map' = GroupIssues(fetch_issues(udd), EmptyDict)
            /\ calls' = Append(calls, <<"fetch_issues">>)
       ELSE UNCHANGED <<issue_map, calls>>
    /\ pc' = "dump"
    /\ UNCHANGED <<machineVars, args, packages, archs, source_maps, todo, lines, idx,
                   summary, audited, total_present, total_unknown, stdout, exit_code, raised, disk0, prev,
                   issueVars>>

-----------------------------------------------------------------------------
(* Cache.dump.  atomic_write(path, overwrite=True) opens a temporary file in *)
(* the directory of path, hands it to the body, and on leaving the body      *)
(* renames it onto path; if the body raises it removes the temporary file.   *)

\* the content of a file that has been created and not yet written
Truncated == [j |-> "truncated"]

TmpFile(filename, content, complete) ==
    [kind |-> "file", path |-> filename, content |-> content, complete |-> complete]

\* open(filename, 'w') on the target itself: the target is truncated at once
atomic_open_in_place(d, filename, empty, now) == [d EXCEPT ![filename] = File(empty, now)]

\* the cache files once atomic_write has opened its temporary file: the
\* target is left alone
atomic_open(d, filename, empty, now) == d

\* a commit that drops the temporary file without renaming it
atomic_commit_lost(d, t, now) == d

\* the cache files once atomic_write has renamed the temporary file
atomic_commit(d, t, now) == [d EXCEPT ![t.path] = File(t.content, now)]

\* os.makedirs(self._directory, exist_ok=True)
DumpMakedirs ==
    /\ pc = "dump"
    /\ dirExists' = TRUE
    /\ calls' = Append(calls, <<"dump">>)
    /\ todo' = archs
    /\ pc' = "dump_maps"
    /\ UNCHANGED <<disk, tmp, clock, udd, args, packages, archs, source_maps, issue_map,
                   lines, idx, summary, audited, total_present, total_unknown, stdout, exit_code, raised,
                   disk0, prev, issueVars>>

\* entering `with atomic_write(self._source_map_cache(arch), ...)`
DumpOpenMap(arch) ==
    /\ pc = "dump_maps"
    /\ tmp = NoFile
    /\ arch \in todo
    /\ tmp' = TmpFile(source_map_cache(args.release, arch), Truncated, FALSE)
    /\ disk' = atomic_open(disk, source_map_cache(args.release, arch), Truncated, clock)
    /\ UNCHANGED <<dirExists, clock, udd, runVars, histVars, issueVars>>

\* json.dump(self._source_maps[arch], output)
DumpWriteMap ==
    /\ pc = "dump_maps"
    /\ tmp # NoFile
    /\ ~tmp.complete
    /\ tmp' = [tmp EXCEPT !.content = SourceMapToJson(source_maps[tmp.path[2]]),
                          !.complete = TRUE]
    /\ UNCHANGED <<dirExists, disk, clock, udd, runVars, histVars, issueVars>>

\* leaving the with block of a source map
DumpCommitMap ==
    /\ pc = "dump_maps"
    /\ tmp # NoFile
    /\ tmp.complete
    /\ disk' = atomic_commit(disk, tmp, clock)
    /\ tmp' = NoFile
    /\ todo' = todo \ {tmp.path[2]}
    /\ UNCHANGED <<dirExists, clock, udd, pc, args, packages, archs, source_maps, issue_map,
                   lines, idx, summary, audited, total_present, total_unknown, stdout, exit_code, raised,
                   histVars, issueVars>>

\* the issues file opened without waiting for the source maps
DumpOpenIssues_first ==
    /\ pc = "dump_maps"
    /\ tmp = NoFile
    /\ tmp' = TmpFile(issue_cache(args.release), <<>>, FALSE)
    /\ disk' = atomic_open(disk, issue_cache(args.release), <<>>, clock)
    /\ lines' = Concat(issue_map.items)
    /\ pc' = "dump_issues"
    /\ UNCHANGED <<dirExists, clock, udd, args, packages, archs, source_maps, issue_map,
                   todo, idx, summary, audited, total_present, total_unknown, stdout, exit_code,
                   raised, histVars, issueVars>>

\* entering `with atomic_write(self._issue_cache(), ...)`
DumpOpenIssues ==
    /\ pc = "dump_maps"
    /\ tmp = NoFile
    /\ todo = {}
    /\ tmp' = TmpFile(issue_cache(args.release), <<>>, FALSE)
    /\ disk' = atomic_open(disk, issue_cache(args.release), <<>>, clock)
    /\ lines' = Concat(issue_map.items)
    /\ pc' = "dump_issues"
    /\ UNCHANGED <<dirExists, clock, udd, args, packages, archs, source_maps, issue_map,
                   todo, idx, summary, audited, total_present, total_unknown, stdout, exit_code, raised,
                   histVars, issueVars>>

\* json.dump(dataclasses.asdict(issue), output); output.write('\n')
DumpWriteIssue ==
    /\ pc = "dump_issues"
    /\ lines # <<>>
    /\ tmp' = [tmp EXCEPT !.content = Append(@, IssueToJson(Head(lines)))]
    /\ lines' = Tail(lines)
    /\ UNCHANGED <<dirExists, disk, clock, udd, pc, args, packages, archs, source_maps,
                   issue_map, todo, idx, summary, audited, total_present, total_unknown, stdout,
                   exit_code, raised, histVars, issueVars>>

\* leaving the with block of the issues file; dump returns
DumpCommitIssues ==
    /\ pc = "dump_issues"
    /\ lines = <<>>
    /\ disk' = atomic_commit(disk, [tmp EXCEPT !.complete = TRUE], clock)
    /\ tmp' = NoFile
    /\ pc' = "audit"
    /\ UNCHANGED <<dirExists, clock, udd, args, packages, archs, source_maps, issue_map,
                   todo, lines, idx, summary, audited, total_present, total_unknown, stdout,
                   exit_code, raised, histVars, issueVars>>

\* an OSError in makedirs, in creating the temporary file or in a write:
\* atomic_write removes its temporary file and the exception ends the run
DumpFail ==
    /\ pc \in {"dump", "dump_maps", "dump_issues"}
    /\ tmp' = NoFile
    /\ Abort("OSError")
    /\ UNCHANGED <<dirExists, disk, clock, udd, args, packages, archs, source_maps,
                   issue_map, todo, lines, idx, summary, audited, total_present, total_unknown,
                   stdout, histVars, issueVars>>

-----------------------------------------------------------------------------
(* Checker.run: the loop over the packages and the verdict *)

Printed(kind, pkg, n_present, n_ignored, n_fixed) ==
    [kind |-> kind, pkg |-> pkg, present |-> n_present, ignored |-> n_ignored,
     fixed |-> n_fixed]

\* the unknown branch of the loop adding to total_present in place of
\* total_unknown
AuditUnknown_as_present ==
    /\ pc = "audit"
    /\ idx <= Len(packages)
    /\ ~is_known(source_maps, packages[idx].name, packages[idx].architecture)
    /\ stdout' = Append(stdout, Printed("unknown", packages[idx], 0, 0, 0))
    /\ total_present' = total_present + 1
    /\ idx' = idx + 1
    /\ UNCHANGED <<machineVars, pc, args, packages, archs, source_maps, issue_map, todo,
                   lines, summary, audited, total_unknown, exit_code, raised, histVars, issueVars>>

\* a package the cache does not know
AuditUnknown ==
    /\ pc = "audit"
    /\ idx <= Len(packages)
    /\ ~is_known(source_maps, packages[idx].name, packages[idx].architecture)
    /\ stdout' = Append(stdout, Printed("unknown", packages[idx], 0, 0, 0))
    /\ total_unknown' = total_unknown + 1
    /\ idx' = idx + 1
    /\ UNCHANGED <<machineVars, pc, args, packages, archs, source_maps, issue_map, todo,
                   lines, summary, audited, total_present, exit_code, raised, histVars, issueVars>>

\* a known package, its issues gathered pair by pair and not source by source
AuditKnown_per_pair ==
    /\ pc = "audit"
    /\ idx <= Len(packages)
    /\ is_known(source_maps, packages[idx].name, packages[idx].architecture)
    /\ LET pairs == source_maps[packages[idx].architecture][packages[idx].name]
       IN  summary' = from_issues(issues_in_order(issue_map,
                                     [i \in 1..Len(pairs) |-> pairs[i][2]]),
                                 packages[idx].version)
    /\ LET n_present == Len(summary'.issues_present)
           n_ignored == Len(summary'.issues_ignored)
           n_fixed == Len(summary'.issues_fixed)
       IN  /\ stdout' = IF args.show_all \/ n_present > 0
                        THEN Append(stdout, Printed("summary", packages[idx], n_present,
                                                    n_ignored, n_fixed))
                        ELSE stdout
           /\ total_present' = total_present + n_present
    /\ audited' = idx
    /\ idx' = idx + 1
    /\ UNCHANGED <<machineVars, pc, args, packages, archs, source_maps, issue_map, todo,
                   lines, total_unknown, exit_code, raised, histVars, issueVars>>

\* a package the cache knows; the set of its sources is iterated in some order
AuditKnown ==
    /\ pc = "audit"
    /\ idx <= Len(packages)
    /\ is_known(source_maps, packages[idx].name, packages[idx].architecture)
    /\ \E order \in Orderings(SourcesOf(source_maps, packages[idx].name,
                                         packages[idx].architecture)) :
          summary' = from_issues(issues_in_order(issue_map, order), packages[idx].version)
    /\ LET n_present == Len(summary'.issues_present)
           n_ignored == Len(summary'.issues_ignored)
           n_fixed == Len(summary'.issues_fixed)
       IN  /\ stdout' = IF args.show_all \/ n_present > 0
                        THEN Append(stdout, Printed("summary", packages[idx], n_present,
                                                    n_ignored, n_fixed))
                        ELSE stdout
           /\ total_present' = total_present + n_present
    /\ audited' = idx
    /\ idx' = idx + 1
    /\ UNCHANGED <<machineVars, pc, args, packages, archs, source_maps, issue_map, todo,
                   lines, total_unknown, exit_code, raised, histVars, issueVars>>

\* a verdict that looks at total_present only
run_result_present_only(n_present, n_unknown) == ~(n_present > 0)

run_result(n_present, n_unknown) ==
    IF n_present > 0 THEN FALSE
    ELSE IF n_unknown > 0 THEN FALSE
    ELSE TRUE

\* the end of run, and main's sys.exit
Finish ==
    /\ pc = "audit"
    /\ idx > Len(packages)
    /\ exit_code' = IF run_result(total_present, total_unknown) THEN PyInt(0) ELSE PyInt(1)
    /\ pc' = "done"
    /\ UNCHANGED <<machineVars, args, packages, archs, source_maps, issue_map, todo, lines,
                   idx, summary, audited, total_present, total_unknown, stdout, raised,
                   histVars, issueVars>>

\* the process is gone, and its memory and its output with it; what stays is
\* the cache directory
Forget ==
    /\ pc' = "idle"
    /\ args' = NoArgs
    /\ packages' = <<>>
    /\ archs' = {}
    /\ source_maps' = NoMaps
    /\ issue_map' = EmptyDict
    /\ todo' = {}
    /\ lines' = <<>>
    /\ idx' = 1
    /\ summary' = NoSummary
    /\ audited' = 0
    /\ total_present' = 0
    /\ total_unknown' = 0
    /\ stdout' = <<>>
    /\ exit_code' = PyNone
    /\ raised' = PyNone
    /\ calls' = <<>>
    /\ disk0' = disk

\* the end of the process after sys.exit or after an exception
ProcessExit ==
    /\ pc \in {"done", "aborted"}
    /\ prev' = IF pc = "done" /\ (\A f \in Paths : disk0[f] = NoFile)
                  /\ \E i \in 1..Len(calls) : calls[i] = <<"dump">>
               THEN [filled |-> TRUE, release |-> args.release, archs |-> archs]
               ELSE NoPrev
    /\ Forget
    /\ UNCHANGED <<machineVars, issueVars>>

\* the process is killed, or the machine stops, in the middle of dump: nothing
\* is cleaned up.  The temporary file stays in the directory under a name of
\* its own, which no later invocation opens.
Kill ==
    /\ pc \in {"dump", "dump_maps", "dump_issues"}
    /\ prev' = NoPrev
    /\ tmp' = NoFile
    /\ Forget
    /\ UNCHANGED <<dirExists, disk, clock, udd, issueVars>>

-----------------------------------------------------------------------------
(* The two predicates of Issue, called in any order on one Issue *)

FixedVersions == {PyNone, PyStr("")} \cup {PyStr(v) : v \in Versions}
Nodsas == {PyNone, PyStr(""), PyStr("ignored")}
Subjects ==
    {Issue(PyStr("srcA"), PyStr("CVE-1"), PyStr("overflow"), PyStr("remote"), PyInt(1),
           fixed_version, PyStr("open"), nodsa)
     : fixed_version \in FixedVersions, nodsa \in Nodsas}

Observation(op, version, result) == [op |-> op, version |-> version, result |-> result]

InitIssue ==
    /\ subject \in Subjects
    /\ observed = <<>>
    /\ disk = [f \in Paths |-> NoFile]
    /\ dirExists = FALSE
    /\ tmp = NoFile
    /\ clock = 0
    /\ udd \in Udds
    /\ RunIdle
    /\ disk0 = disk
    /\ prev = NoPrev

CallIsPresentIn(version) ==
    /\ Len(observed) < MaxCalls
    /\ observed' = Append(observed, Observation("is_present_in", version,
                                                is_present_in(subject, version)))
    /\ UNCHANGED <<subject, machineVars, runVars, histVars>>

CallIsIgnored ==
    /\ Len(observed) < MaxCalls
    /\ observed' = Append(observed, Observation("is_ignored", "", is_ignored(subject)))
    /\ UNCHANGED <<subject, machineVars, runVars, histVars>>

NextIssue ==
    \/ \E version \in Versions : CallIsPresentIn(version)
    \/ CallIsIgnored

SpecIssue == InitIssue /\ [][NextIssue]_vars

Next ==
    \/ \E release \in Releases, files \in FileLists, show_all \in BOOLEAN :
          StartRun(release, files, show_all)
    \/ Scan
    \/ ScanFail
    \/ Load
    \/ LoadFail
    \/ ResolveComplete
    \/ ResolveIncomplete
    \/ Connect
    \/ ConnectFail
    \/ \E arch \in Archs : FetchSourceMap(arch)
    \/ \E arch \in Archs : FetchFail(arch)
    \/ FetchIssues
    \/ DumpMakedirs
    \/ \E arch \in Archs : DumpOpenMap(arch)
    \/ DumpWriteMap
    \/ DumpCommitMap
    \/ DumpOpenIssues
    \/ DumpWriteIssue
    \/ DumpCommitIssues
    \/ DumpFail
    \/ Kill
    \/ AuditUnknown
    \/ AuditKnown
    \/ Finish
    \/ ProcessExit

Spec == Init /\ [][Next]_vars

-----------------------------------------------------------------------------
(* Properties *)

\* the comparator's three answers
Compare(a, b) ==
    IF version_compare(a, b) < 0 THEN "LESS"
    ELSE IF version_compare(a, b) = 0 THEN "EQUAL"
    ELSE "GREATER"

HasCall(c) == \E i \in 1..Len(calls) : calls[i] = c
Queried == \E i \in 1..Len(calls) :
              calls[i][1] \in {"udd_connect", "load_missing", "fetch_source_map", "fetch_issues"}
Count(seq, x) == Cardinality({i \in 1..Len(seq) : seq[i] = x})
EmptyAtStart == \A f \in Paths : disk0[f] = NoFile

\* C1: every is_present_in(v) answered true exactly when fixed_version is None
\* or empty or compare(v, fixed_version) is LESS; so an issue without
\* fixed_version is present in every version and an issue is not present in a
\* version equal to or greater than fixed_version.
C1_IsPresentIn ==
    \A i \in 1..Len(observed) :
        observed[i].op = "is_present_in" =>
            /\ observed[i].result <=>
                  \/ subject.fixed_version \in {PyNone, PyStr("")}
                  \/ Compare(observed[i].version, subject.fixed_version.s) = "LESS"
            /\ subject.fixed_version = PyNone => observed[i].result
            /\ ( /\ subject.fixed_version \notin {PyNone, PyStr("")}
                 /\ Compare(observed[i].version, subject.fixed_version.s) \in {"EQUAL", "GREATER"} )
               => ~observed[i].result

\* one Issue fixed in 1.0-2 was asked about 1.0-1 (present) and about 1.0-2 (not)
C1_Witness ==
    /\ subject # NoSubject
    /\ subject.fixed_version = PyStr("1.0-2")
    /\ \E i, j \in 1..Len(observed) :
          /\ observed[i] = Observation("is_present_in", "1.0-1", TRUE)
          /\ observed[j] = Observation("is_present_in", "1.0-2", FALSE)

\* what a completed run counted, counted again from the cache
UnknownPackages ==
    {i \in 1..Len(packages) :
        ~is_known(source_maps, packages[i].name, packages[i].architecture)}
PresentIssues ==
    {t \in UNION {UNION {{<<i, source, k>> : k \in 1..Len(Get(issue_map, source))}
                         : source \in SourcesOf(source_maps, packages[i].name,
                                                packages[i].architecture)}
                  : i \in (1..Len(packages)) \ UnknownPackages} :
        /\ is_present_in(Get(issue_map, t[2])[t[3]], packages[t[1]].version)
        /\ ~is_ignored(Get(issue_map, t[2])[t[3]])}

\* C2: a completed run exits with 0 exactly when no audited package has a
\* present issue that is not ignored and no package is unknown, and with 1
\* otherwise; ignored and fixed issues do not count.
C2_ExitVerdict ==
    pc = "done" =>
        /\ exit_code \in {PyInt(0), PyInt(1)}
        /\ exit_code = PyInt(0) <=> (PresentIssues = {} /\ UnknownPackages = {})

\* a run failed by an unknown package alone, with issues that were fixed or ignored
C2_Witness ==
    /\ pc = "done"
    /\ exit_code = PyInt(1)
    /\ PresentIssues = {}
    /\ UnknownPackages # {}
    /\ audited > 0
    /\ Len(summary.issues_fixed) + Len(summary.issues_ignored) > 0

\* C3: when load_missing has returned, every architecture whose index file
\* was absent has been fetched and holds the fetched map, and if the issues
\* file was absent the issues have been fetched and the catalog holds them all,
\* grouped by source.
C3_LoadMissingFetchesAll ==
    pc = "dump" =>
        /\ \A arch \in archs :
              ~Exists(disk0, source_map_cache(args.release, arch)) =>
                  /\ HasCall(<<"fetch_source_map", arch>>)
                  /\ source_maps[arch] = fetch_source_map(udd, arch)
        /\ ~Exists(disk0, issue_cache(args.release)) =>
              /\ HasCall(<<"fetch_issues">>)
              /\ issue_map = GroupIssues(fetch_issues(udd), EmptyDict)

\* C4: with a complete cache the run neither connects to the database nor
\* queries it nor dumps, the cache files stay as they were, and the packages
\* are audited on what was loaded from them, whatever the files' age; with an
\* incomplete one load_missing and then dump have been called, in that order,
\* before the first package is audited.
C4_CompleteCacheIsTrusted ==
    /\ (pc \notin {"idle", "scan"} /\ is_complete(disk0, args.release, archs)) =>
          /\ ~Queried
          /\ ~HasCall(<<"dump">>)
          /\ disk = disk0
          /\ tmp = NoFile
          /\ pc \in {"audit", "done"} =>
                /\ issue_map = load_issue_map(disk0, args.release)
                /\ source_maps = load_source_maps(disk0, args.release, archs)
    /\ (pc \in {"audit", "done"} /\ ~is_complete(disk0, args.release, archs)) =>
          \E i, j \in 1..Len(calls) :
              /\ i < j
              /\ calls[i] = <<"load_missing">>
              /\ calls[j] = <<"dump">>
    /\ pc \notin {"audit", "done"} =>
          /\ idx = 1
          /\ audited = 0
          /\ stdout = <<>>
          /\ total_present = 0
          /\ total_unknown = 0

\* a run finished on a complete cache written two ticks ago whose source map
\* is not the one the database would give today
C4_Witness ==
    /\ pc = "done"
    /\ is_complete(disk0, args.release, archs)
    /\ clock = 2
    /\ \E arch \in archs :
          /\ disk[source_map_cache(args.release, arch)].mtime = 0
          /\ source_maps[arch] # fetch_source_map(udd, arch)

\* C5: the three lists of the Summary of a known package are pairwise
\* disjoint, every issue in them is an issue of one of the package's sources,
\* and every issue of the package's sources is in them as often as the
\* catalog has it.
C5_SummaryPartitions ==
    audited > 0 =>
        LET pkg == packages[audited]
            sources == SourcesOf(source_maps, pkg.name, pkg.architecture)
            fixed == summary.issues_fixed
            present == summary.issues_present
            ignored == summary.issues_ignored
            all == fixed \o present \o ignored
        IN  /\ \A i \in 1..Len(fixed), j \in 1..Len(present) : fixed[i] # present[j]
            /\ \A i \in 1..Len(fixed), j \in 1..Len(ignored) : fixed[i] # ignored[j]
            /\ \A i \in 1..Len(present), j \in 1..Len(ignored) : present[i] # ignored[j]
            /\ \A i \in 1..Len(all) :
                  /\ all[i].source \in sources
                  /\ Count(Get(issue_map, all[i].source), all[i]) > 0
            /\ \A source \in sources :
                  \A k \in 1..Len(Get(issue_map, source)) :
                      Count(all, Get(issue_map, source)[k])
                          = Count(Get(issue_map, source), Get(issue_map, source)[k])

\* a package with a fixed, a present and an ignored issue
C5_Witness ==
    /\ audited > 0
    /\ Len(summary.issues_fixed) > 0
    /\ Len(summary.issues_present) > 0
    /\ Len(summary.issues_ignored) > 0

\* C6 as claimed: is_ignored() is true exactly when nodsa is neither None nor
\* empty.
C6_IsIgnoredNonEmpty ==
    \A i \in 1..Len(observed) :
        observed[i].op = "is_ignored" =>
            (observed[i].result <=> subject.nodsa \notin {PyNone, PyStr("")})

\* C6, amended: is_ignored() is true exactly when nodsa is not None, an empty
\* nodsa included; all calls on one Issue agree, whatever is_present_in calls
\* are made between them.
C6_IsIgnored ==
    /\ \A i \in 1..Len(observed) :
          observed[i].op = "is_ignored" => (observed[i].result <=> subject.nodsa # PyNone)
    /\ \A i, j \in 1..Len(observed) :
          (observed[i].op = "is_ignored" /\ observed[j].op = "is_ignored")
              => observed[i].result = observed[j].result

\* an Issue with an empty nodsa, asked before and after an is_present_in call
C6_Witness ==
    /\ Len(observed) = 3
    /\ subject.nodsa = PyStr("")
    /\ observed[1] = Observation("is_ignored", "", TRUE)
    /\ observed[2].op = "is_present_in"
    /\ observed[3] = Observation("is_ignored", "", TRUE)

\* C7: a run that started with no cache file and got as far as auditing has
\* written the issues file and the index file of each of its architectures,
\* so the cache is complete; the next run, for the same release and
\* architectures, finds it complete and makes no query and no dump.
C7_FilledCacheIsComplete ==
    /\ (pc \in {"audit", "done"} /\ EmptyAtStart) =>
          /\ dirExists
          /\ \A f \in cache_files(args.release, archs) : disk[f].kind = "file"
          /\ is_complete(disk, args.release, archs)
    /\ ( /\ prev.filled
         /\ pc \notin {"idle", "scan"}
         /\ args.release = prev.release
         /\ archs = prev.archs ) =>
          /\ is_complete(disk0, args.release, archs)
          /\ pc \in {"load", "resolve", "audit", "done"}
          /\ ~Queried
          /\ ~HasCall(<<"dump">>)

\* the run after one that filled an empty cache, auditing from the disk
C7_Witness ==
    /\ prev.filled
    /\ args.release = prev.release
    /\ archs = prev.archs
    /\ pc = "audit"
    /\ calls = << <<"_load">>, <<"last_updated">> >>

\* what dump is writing, file by file
NewContent(f) ==
    IF f = issue_cache(args.release)
    THEN [i \in 1..Len(Concat(issue_map.items)) |-> IssueToJson(Concat(issue_map.items)[i])]
    ELSE SourceMapToJson(source_maps[f[2]])

\* C8: at every point of a run, a crash in the middle of dump included, each
\* cache file is as it was when the run started (absent if it was) or is a
\* file with the whole of the content dump writes to it.
C8_AtomicFiles ==
    \A f \in Paths :
        \/ disk[f] = disk0[f]
        \/ /\ disk[f].kind = "file"
           /\ disk[f].content = NewContent(f)

\* in the middle of writing the new content of a file that was there before,
\* one other file being renewed already; the process may be killed here
C8_Witness ==
    /\ pc = "dump_issues"
    /\ ENABLED Kill
    /\ tmp # NoFile
    /\ lines # <<>>
    /\ disk0[tmp.path] # NoFile
    /\ disk[tmp.path] = disk0[tmp.path]
    /\ tmp.content # disk0[tmp.path].content
    /\ \E f \in Paths : disk[f] # disk0[f]

\* C9: once dump has returned, loading the files it wrote gives the issue
\* catalog and the source maps that were dumped.
C9_DumpLoadRoundTrip ==
    (pc \in {"audit", "done"} /\ HasCall(<<"dump">>)) =>
        /\ load_issue_map(disk, args.release) = issue_map
        /\ load_source_maps(disk, args.release, archs) = source_maps

\* a dump of issues of two sources, None and empty fields among them, and of
\* the source maps of two architectures
C9_Witness ==
    /\ pc = "audit"
    /\ HasCall(<<"dump">>)
    /\ Len(issue_map.items) = 2
    /\ \E i \in 1..Len(issue_map.items) :
          /\ issue_map.items[i][2][1].fixed_version = PyNone
          /\ issue_map.items[i][2][1].bug = PyNone
    /\ archs = Archs

\* C10: the step the loop takes for a package that the source map of its
\* architecture does not have raises nothing, prints the package as unknown,
\* adds 1 to total_unknown and nothing to total_present, and moves on to the
\* next package.
C10_UnknownPackageCounted ==
    [][ ( /\ pc = "audit"
          /\ idx <= Len(packages)
          /\ ~is_known(source_maps, packages[idx].name, packages[idx].architecture) )
        => /\ pc' = "audit"
           /\ exit_code' = PyNone
           /\ total_unknown' = total_unknown + 1
           /\ total_present' = total_present
           /\ stdout' = Append(stdout, Printed("unknown", packages[idx], 0, 0, 0))
           /\ idx' = idx + 1
           /\ UNCHANGED <<packages, source_maps, issue_map>> ]_vars

\* an unknown package first, then a known one with a present issue
C10_Witness ==
    /\ pc = "done"
    /\ Len(packages) = 2
    /\ UnknownPackages = {1}
    /\ total_unknown = 1
    /\ audited = 2
    /\ total_present > 0

\* the exceptions of the database driver
FetchErrors == {PyStr("OperationalError"), PyStr("DatabaseError")}

\* C11: when connecting to the database or a query of load_missing fails, the
\* run is aborted with no package audited or reported, dump has not been
\* called and every cache file is as it was at the start, whatever had been
\* fetched before the failure.
C11_FetchFailureAborts ==
    raised \in FetchErrors =>
        /\ pc = "aborted"
        /\ exit_code = PyInt(1)
        /\ audited = 0
        /\ idx = 1
        /\ stdout = <<>>
        /\ total_present = 0
        /\ total_unknown = 0
        /\ ~HasCall(<<"dump">>)
        /\ tmp = NoFile
        /\ disk = disk0

\* the query for the second architecture failed after the first had been
\* fetched into memory
C11_Witness ==
    /\ pc = "aborted"
    /\ raised = PyStr("DatabaseError")
    /\ \E a \in DOMAIN source_maps :
          /\ ~Exists(disk0, source_map_cache(args.release, a))
          /\ HasCall(<<"fetch_source_map", a>>)
          /\ source_maps[a] = fetch_source_map(udd, a)

\* an expected cache file was there at the start and cannot be read
CorruptAtStart ==
    \E f \in cache_files(args.release, archs) :
        /\ Exists(disk0, f)
        /\ IF f = issue_cache(args.release)
           THEN \E i \in 1..Len(disk0[f].content) : ~IssueLineLoads(disk0[f].content[i])
           ELSE ~SourceMapLoads(disk0[f].content)
ParseErrors == {PyStr("JSONDecodeError"), PyStr("TypeError"), PyStr("AttributeError")}

\* C12: when the packages have been scanned and the issues file or the index
\* file of a scanned architecture exists and cannot be parsed, the run gets no
\* further than constructing the Cache: it is aborted, the database has not been contacted, dump has not
\* been called and every cache file is as it was.
C12_CorruptCacheAborts ==
    /\ (pc \notin {"idle", "scan", "load"} /\ packages # <<>> /\ CorruptAtStart) =>
          /\ pc = "aborted"
          /\ raised \in ParseErrors
    /\ raised \in ParseErrors =>
          /\ pc = "aborted"
          /\ exit_code = PyInt(1)
          /\ CorruptAtStart
          /\ ~Queried
          /\ ~HasCall(<<"dump">>)
          /\ disk = disk0
          /\ tmp = NoFile
          /\ audited = 0
          /\ stdout = <<>>

\* a run aborted on a damaged index file while another expected file was
\* missing
C12_Witness ==
    /\ pc = "aborted"
    /\ raised \in ParseErrors
    /\ ~is_complete(disk0, args.release, archs)
    /\ \E a \in archs : Exists(disk0, source_map_cache(args.release, a))
                        /\ ~SourceMapLoads(disk0[source_map_cache(args.release, a)].content)

\* C13 as claimed: a failure of dump does not abort the run.
C13_DumpFailureNotFatal ==
    raised = PyStr("OSError") => pc # "aborted"

\* C14 as claimed: when a run is aborted, the cache files are all as they were
\* at its start, or the issues file and the index file of each scanned
\* architecture are all written anew from the catalog and the maps in memory.
C14_NoPartialCache ==
    pc = "aborted" =>
        \/ disk = disk0
        \/ \A f \in cache_files(args.release, archs) :
              /\ disk[f].kind = "file"
              /\ disk[f].mtime = clock
              /\ disk[f].content = NewContent(f)

\* C15: when a file of the command line is no package, the run is aborted in
\* scan_packages: no Cache has been constructed, so no cache file has been
\* read or written, the database has not been contacted, and no package has
\* been audited or printed.
C15_ScanFailsFast ==
    /\ (pc \notin {"idle", "scan"} /\ \E i \in 1..Len(args.files) : ~Debs[args.files[i]].valid)
          => (pc = "aborted" /\ raised = PyStr("ArError"))
    /\ raised = PyStr("ArError") =>
          /\ pc = "aborted"
          /\ exit_code = PyInt(1)
          /\ calls = <<>>
          /\ packages = <<>>
          /\ disk = disk0
          /\ tmp = NoFile
          /\ audited = 0
          /\ idx = 1
          /\ stdout = <<>>

\* a good package file followed by one that is no package, with an incomplete
\* cache on disk
C15_Witness ==
    /\ pc = "aborted"
    /\ raised = PyStr("ArError")
    /\ Len(args.files) = 2
    /\ Debs[args.files[1]].valid
    /\ \E f \in Paths : Exists(disk, f)
    /\ \E f \in Paths : ~Exists(disk, f)

\* C16: for every release and every set of architectures, last_updated() is
\* None exactly when the issues file or the index file of one of the
\* architectures is missing, which is exactly when is_complete() is false;
\* otherwise it is the least modification time among those files and no others.
C16_LastUpdated ==
    \A release \in Releases, architectures \in (SUBSET Archs) \ {{}} :
        LET expected == {issue_cache(release)} \cup
                        {source_map_cache(release, a) : a \in architectures}
            missing == \E f \in expected : disk[f] = NoFile
            updated == last_updated(disk, release, architectures)
        IN  /\ updated = PyNone <=> missing
            /\ updated = PyNone <=> ~is_complete(disk, release, architectures)
            /\ ~missing =>
                  /\ updated.t = "int"
                  /\ \E f \in expected : disk[f].mtime = updated.n
                  /\ \A f \in expected : updated.n <= disk[f].mtime

\* a run that called last_updated on a complete cache whose files are not all
\* of the same time
C16_Witness ==
    /\ pc = "audit"
    /\ calls = << <<"_load">>, <<"last_updated">> >>
    /\ archs = Archs
    /\ last_updated(disk, args.release, archs) = PyInt(0)
    /\ \E f \in cache_files(args.release, archs) : disk[f].mtime > 0

\* the rule of the claim, from the fields of the issue
PresentIn(issue, version) ==
    \/ issue.fixed_version \in {PyNone, PyStr("")}
    \/ Compare(version, issue.fixed_version.s) = "LESS"
In(seq, x) == \E i \in 1..Len(seq) : seq[i] = x

\* C17: in the Summary of a known package, whose version is not empty, an
\* issue of the package's sources is under fixed exactly when it is not present
\* in the version, under ignored exactly when it is present and its nodsa is
\* not None, and under present exactly when it is present and its nodsa is
\* None; an issue without fixed_version and with a nodsa is under ignored, and
\* one with a nodsa whose fixed_version is not above the version is under fixed.
C17_Classification ==
    audited > 0 =>
        LET pkg == packages[audited]
            version == pkg.version
            mine == UNION {{Get(issue_map, source)[k] : k \in 1..Len(Get(issue_map, source))}
                           : source \in SourcesOf(source_maps, pkg.name, pkg.architecture)}
        IN  /\ version # ""
            /\ \A x \in mine :
                  /\ In(summary.issues_fixed, x) <=> ~PresentIn(x, version)
                  /\ In(summary.issues_ignored, x) <=>
                        (PresentIn(x, version) /\ x.nodsa # PyNone)
                  /\ In(summary.issues_present, x) <=>
                        (PresentIn(x, version) /\ x.nodsa = PyNone)
                  /\ (x.fixed_version = PyNone /\ x.nodsa # PyNone)
                        => In(summary.issues_ignored, x)
                  /\ ( /\ x.nodsa # PyNone
                       /\ x.fixed_version \notin {PyNone, PyStr("")}
                       /\ Compare(x.fixed_version.s, version) \in {"LESS", "EQUAL"} )
                        => (In(summary.issues_fixed, x) /\ ~In(summary.issues_ignored, x))

\* a Summary with an ignored issue that has no fixed_version and a fixed issue
\* that has a nodsa
C17_Witness ==
    /\ audited > 0
    /\ \E i \in 1..Len(summary.issues_ignored) :
          /\ summary.issues_ignored[i].fixed_version = PyNone
          /\ summary.issues_ignored[i].nodsa # PyNone
    /\ \E i \in 1..Len(summary.issues_fixed) : summary.issues_fixed[i].nodsa # PyNone

\* the sum of the lengths of the catalog's lists of a set of sources
RECURSIVE TotalLen(_, _)
TotalLen(imap, sources) ==
    IF sources = {} THEN 0
    ELSE LET source == CHOOSE source \in sources : TRUE
         IN  Len(Get(imap, source)) + TotalLen(imap, sources \ {source})
CatalogIssues ==
    UNION {{issue_map.items[i][2][k] : k \in 1..Len(issue_map.items[i][2])}
           : i \in 1..Len(issue_map.items)}

\* C18: the issues gathered for a known package are the catalog's lists of
\* the distinct sources among the package's (version, source) pairs, each list
\* once, however many pairs name the source; a source the catalog does not have
\* adds nothing and the step is taken all the same.
C18_IssuesOfDistinctSources ==
    audited > 0 =>
        LET pkg == packages[audited]
            pairs == source_maps[pkg.architecture][pkg.name]
            distinct == {pairs[i][2] : i \in 1..Len(pairs)}
            gathered == summary.issues_fixed \o summary.issues_present \o summary.issues_ignored
        IN  /\ Len(gathered) = TotalLen(issue_map, distinct)
            /\ \A x \in CatalogIssues :
                  Count(gathered, x) =
                      IF x.source \in distinct THEN Count(Get(issue_map, x.source), x) ELSE 0
            /\ \A i \in 1..Len(gathered) : gathered[i] \in CatalogIssues

\* a package with two pairs of one source that has issues, audited
C18_Witness ==
    /\ audited > 0
    /\ LET pairs == source_maps[packages[audited].architecture][packages[audited].name]
       IN  /\ Len(pairs) = 2
           /\ pairs[1][2] = pairs[2][2]
           /\ Len(Get(issue_map, pairs[1][2])) > 1
           /\ Len(summary.issues_fixed) + Len(summary.issues_present)
                 + Len(summary.issues_ignored) = Len(Get(issue_map, pairs[1][2]))

\* C19: while dump and the loop over the packages run, on either branch of
\* run, the architecture of every scanned package is a key of the source maps
\* in memory.
C19_ArchitecturesLoaded ==
    pc \in {"dump", "dump_maps", "dump_issues", "audit", "done"} =>
        /\ packages # <<>>
        /\ \A i \in 1..Len(packages) : packages[i].architecture \in DOMAIN source_maps
        /\ archs \subseteq DOMAIN source_maps

\* the loop over the packages after a dump, one source map read from the disk
\* and one fetched
C19_Witness ==
    /\ pc = "audit"
    /\ idx > 1
    /\ HasCall(<<"dump">>)
    /\ \E a, b \in archs :
          /\ Exists(disk0, source_map_cache(args.release, a))
          /\ ~Exists(disk0, source_map_cache(args.release, b))
          /\ HasCall(<<"fetch_source_map", b>>)

\* C20: dump has written the index file of every scanned architecture when it
\* comes to the issues file; so in a run that found no cache file, wherever it
\* is or was stopped, the issues file is there only if the index files of all
\* its architectures are.
C20_IndexFilesFirst ==
    /\ pc = "dump_issues" =>
          \A a \in archs :
              disk[source_map_cache(args.release, a)]
                  = File(SourceMapToJson(source_maps[a]), clock)
    /\ (pc # "idle" /\ EmptyAtStart) =>
          ( Exists(disk, issue_cache(args.release))
              => \A a \in archs : Exists(disk, source_map_cache(args.release, a)) )

\* a dump into an empty directory that may fail or be killed between the two
\* index files
C20_Witness ==
    /\ EmptyAtStart
    /\ pc = "dump_maps"
    /\ ENABLED Kill
    /\ ENABLED DumpFail
    /\ archs = Archs
    /\ \E a \in archs : Exists(disk, source_map_cache(args.release, a))
    /\ \E a \in archs : ~Exists(disk, source_map_cache(args.release, a))
    /\ ~Exists(disk, issue_cache(args.release))

====
